---------------------------- MODULE Spec2Model ----------------------------
(***************************************************************************)
(* A model of src/pagerank.py: transition_model, sample_pagerank and       *)
(* iterate_pagerank, each run on a graph (the dictionary `corpus`) that    *)
(* the caller hands over.                                                  *)
(*                                                                         *)
(* Pages are the integers 1..n.  A damping factor is damping/DampDen.      *)
(* transition_model and the final division of sample_pagerank are          *)
(* computed with exact rationals <<numerator, denominator>> in lowest      *)
(* terms.  iterate_pagerank repeats its arithmetic an unbounded number of  *)
(* times, so its ranks are fixed-point numbers: the integer v stands for   *)
(* v/Scale and every division rounds to the nearest multiple of 1/Scale.   *)
(***************************************************************************)
EXTENDS Integers, Sequences, FiniteSets

\* ----------------------------------------------------------------- bounds
\* Largest graph handed to transition_model and iterate_pagerank.
MaxPages == 3
\* Largest graph handed to sample_pagerank.
MaxWalkPages == 2
\* Largest sample count handed to sample_pagerank.
MaxSamples == 3

\* ------------------------------------------------------ numbers of the code
\* Damping factors are multiples of 1/DampDen; DAMPING = 0.85 = 17/20.
DampDen == 20
DAMPING == 17
Dampings == {0, 10, DAMPING, DampDen}
\* Resolution of the fixed-point ranks of iterate_pagerank.
Scale == 1000000
\* The convergence threshold 0.001 of iterate_pagerank.
Threshold == Scale \div 1000

VARIABLES
    call,         \* which function the caller invokes
    corpus,       \* the graph object: page -> set of pages it links to
    order,        \* iteration order of the dictionary `corpus`
    damping,      \* damping_factor, as a numerator over DampDen
    page,         \* the `page` argument of transition_model
    num,          \* the sample count `n` of sample_pagerank
    pc,           \* "call", "walk", "loop", "done" or "error"
    probability,  \* sample_pagerank: page -> transition distribution
    state,        \* sample_pagerank: the current page of the walk
    i,            \* sample_pagerank: the loop counter
    ans,          \* sample_pagerank: visit counts, then estimates
    links,        \* iterate_pagerank: the reverse link index
    pr,           \* iterate_pagerank: the ranks
    diff,         \* iterate_pagerank: the last absolute change
    change,       \* iterate_pagerank: the flag of the while loop
    ret           \* the returned mapping

vars == <<call, corpus, order, damping, page, num, pc, probability, state,
          i, ans, links, pr, diff, change, ret>>

\* ------------------------------------------------------------- arithmetic
Abs(x) == IF x < 0 THEN -x ELSE x

RECURSIVE GCD(_, _)
GCD(a, b) == IF b = 0 THEN a ELSE GCD(b, a % b)

\* The rational a/b (a >= 0, b > 0) in lowest terms.
Rat(a, b) == LET g == GCD(a, b) IN <<a \div g, b \div g>>

RatAdd(x, y) == Rat(x[1] * y[2] + y[1] * x[2], x[2] * y[2])

RatPos(x) == x[1] > 0

RECURSIVE RatSumOver(_, _)
RatSumOver(f, S) ==
    IF S = {} THEN <<0, 1>>
    ELSE LET k == CHOOSE k \in S : TRUE
         IN RatAdd(f[k], RatSumOver(f, S \ {k}))

\* The sum of the values of a mapping of rationals.
RatSum(f) == RatSumOver(f, DOMAIN f)

RECURSIVE IntSumOver(_, _)
IntSumOver(f, S) ==
    IF S = {} THEN 0
    ELSE LET k == CHOOSE k \in S : TRUE
         IN f[k] + IntSumOver(f, S \ {k})

\* The sum of the values of a mapping of integers.
IntSum(f) == IntSumOver(f, DOMAIN f)

\* a/b on fixed-point numbers, rounded to the nearest unit (a >= 0, b > 0).
FxDiv(a, b) == (2 * a + b) \div (2 * b)

\* ----------------------------------------------------------------- graphs
\* The graphs of crawl over the pages 1..n: every link is a page, no page
\* links to itself.
Graphs(n) == {g \in [1..n -> SUBSET (1..n)] : \A p \in 1..n : p \notin g[p]}

\* Orders in which the dictionary lists its pages.  The graphs above are
\* all labelled graphs, so the ascending order already stands for every
\* order up to renaming; the descending one lets two orders meet one graph.
Orders(n) == {[k \in 1..n |-> k], [k \in 1..n |-> n + 1 - k]}

Pages == DOMAIN corpus

\* ------------------------------------------------------- transition_model
\* `random_pro`
RandomProNoDangling(c, p, d) == Rat(DampDen - d, DampDen * Cardinality(DOMAIN c))

RandomPro(c, p, d) ==
    IF c[p] # {}
    THEN Rat(DampDen - d, DampDen * Cardinality(DOMAIN c))
    ELSE Rat(1, Cardinality(DOMAIN c))

\* `link_pro`
LinkProOverN(c, p, d) ==
    IF c[p] # {}
    THEN Rat(d, DampDen * Cardinality(DOMAIN c))
    ELSE <<0, 1>>

LinkPro(c, p, d) ==
    IF c[p] # {}
    THEN Rat(d, DampDen * Cardinality(c[p]))
    ELSE <<0, 1>>

transition_model(c, p, d) ==
    [key \in DOMAIN c |->
        IF key \in c[p]
        THEN RatAdd(LinkPro(c, p, d), RandomPro(c, p, d))
        ELSE RandomPro(c, p, d)]

\* ----------------------------------------------------------------- Init
Init ==
    /\ call \in {"transition", "sample", "iterate"}
    /\ \E n \in 0..MaxPages :
          /\ call = "sample" => n <= MaxWalkPages
          /\ call = "transition" => n >= 1
          /\ corpus \in Graphs(n)
          /\ order \in IF call = "iterate" THEN Orders(n) ELSE {[k \in 1..n |-> k]}
          /\ page \in IF call = "transition" THEN 1..n ELSE {0}
    /\ damping \in Dampings
    /\ num \in IF call = "sample" THEN 0..MaxSamples ELSE {0}
    /\ pc = "call"
    /\ probability = <<>>
    /\ state = 0
    /\ i = 0
    /\ ans = <<>>
    /\ links = <<>>
    /\ pr = <<>>
    /\ diff = 0
    /\ change = FALSE
    /\ ret = <<>>

\* transition_model(corpus, page, damping_factor), called on its own.
TransitionCall ==
    /\ pc = "call" /\ call = "transition"
    /\ ret' = transition_model(corpus, page, damping)
    /\ pc' = "done"
    /\ UNCHANGED <<call, corpus, order, damping, page, num, probability,
                   state, i, ans, links, pr, diff, change>>

\* -------------------------------------------------------- sample_pagerank
\* The pages random.choices can draw: those of positive weight.
Support(dist) == {q \in DOMAIN dist : RatPos(dist[q])}

\* ans[state] = ans.get(state, 0) + 1
VisitFromOne(a, s) ==
    IF s \in DOMAIN a
    THEN [a EXCEPT ![s] = @ + 1]
    ELSE [k \in DOMAIN a \cup {s} |-> IF k = s THEN 2 ELSE a[k]]

Visit(a, s) ==
    IF s \in DOMAIN a
    THEN [a EXCEPT ![s] = @ + 1]
    ELSE [k \in DOMAIN a \cup {s} |-> IF k = s THEN 1 ELSE a[k]]

\* ans[key] = ans[key]/n for every key of ans
Estimates(a, n) == [k \in DOMAIN a |-> Rat(a[k], n)]

\* The distributions are precomputed and the first page is drawn.
SampleStart ==
    /\ pc = "call" /\ call = "sample"
    /\ Pages # {}
    /\ probability' = [p \in Pages |-> transition_model(corpus, p, damping)]
    /\ state' \in Pages
    /\ ans' = <<>>
    /\ i' = 0
    /\ pc' = "walk"
    /\ UNCHANGED <<call, corpus, order, damping, page, num, links, pr, diff,
                   change, ret>>

\* random.choice of an empty list raises IndexError.
SampleStartEmpty ==
    /\ pc = "call" /\ call = "sample"
    /\ Pages = {}
    /\ probability' = <<>>
    /\ pc' = "error"
    /\ UNCHANGED <<call, corpus, order, damping, page, num, state, i, ans,
                   links, pr, diff, change, ret>>

\* One round of `for i in range(n)`.
SampleStep ==
    /\ pc = "walk" /\ i < num
    /\ ans' = Visit(ans, state)
    /\ state' \in Support(probability[state])
    /\ i' = i + 1
    /\ UNCHANGED <<call, corpus, order, damping, page, num, pc, probability,
                   links, pr, diff, change, ret>>

\* The counts are divided by n and returned.
SampleReturn ==
    /\ pc = "walk" /\ i >= num
    /\ ans' = Estimates(ans, num)
    /\ ret' = ans'
    /\ pc' = "done"
    /\ UNCHANGED <<call, corpus, order, damping, page, num, probability,
                   state, i, links, pr, diff, change>>

\* ------------------------------------------------------- iterate_pagerank
\* corpus[key] = {x for x in corpus} for every page without links
PreprocessOthers(c) ==
    [key \in DOMAIN c |-> IF c[key] = {} THEN DOMAIN c \ {key} ELSE c[key]]

Preprocess(c) ==
    [key \in DOMAIN c |-> IF c[key] = {} THEN DOMAIN c ELSE c[key]]

\* The reverse corpus: an entry for each page some page links to.
BuildLinks(c) ==
    [t \in UNION {c[key] : key \in DOMAIN c} |->
        {key \in DOMAIN c : t \in c[key]}]

\* diff >= 0.001
ExceedsAlways(d) == d >= 0

Exceeds(d) == d >= Threshold

\* if diff >= 0.001: change = True
FlagLast(ch, d) == Exceeds(d)

Flag(ch, d) == ch \/ Exceeds(d)

\* (1-damping_factor)/n
RandomTerm == FxDiv((DampDen - damping) * Scale, DampDen * Cardinality(Pages))

\* sumation: the sum of pr[j]/len(corpus[j]) over the pages j of links[p],
\* here taken from page j upwards.
RECURSIVE SumationFrom(_, _, _)
SumationFrom(r, p, j) ==
    IF j > Cardinality(Pages)
    THEN 0
    ELSE (IF j \in links[p] THEN FxDiv(r[j], Cardinality(corpus[j])) ELSE 0)
            + SumationFrom(r, p, j + 1)

Sumation(r, p) == SumationFrom(r, p, 1)

\* new_value of page p computed from the ranks r
NewValue(r, p) ==
    IF p \in DOMAIN links
    THEN RandomTerm + FxDiv(damping * Sumation(r, p), DampDen)
    ELSE RandomTerm

\* The body of `for i in corpus` for page p, on the loop's variables s.
\* (Drawing nv from a singleton set makes new_value a value computed once.)
UpdatePage(s, p) ==
    LET Assign(nv) ==
            LET d == Abs(s.pr[p] - nv)
            IN [pr |-> [s.pr EXCEPT ![p] = nv],
                change |-> Flag(s.change, d),
                diff |-> d]
    IN CHOOSE out \in {Assign(nv) : nv \in {NewValue(s.pr, p)}} : TRUE

\* `for i in corpus` from the k-th page of the order on.  (Drawing t from a
\* singleton set makes the loop's variables values computed once.)
RECURSIVE RunPass(_, _)
RunPass(s, k) ==
    IF k > Len(order)
    THEN s
    ELSE CHOOSE out \in {RunPass(t, k + 1) : t \in {UpdatePage(s, order[k])}} : TRUE

\* The working graph, the reverse index and the first ranks are set up.
IterateStart ==
    /\ pc = "call" /\ call = "iterate"
    /\ corpus' = Preprocess(corpus)
    /\ links' = BuildLinks(corpus')
    /\ pr' = [p \in Pages |-> FxDiv(Scale, Cardinality(Pages))]
    /\ diff' = Scale
    /\ change' = TRUE
    /\ pc' = "loop"
    /\ UNCHANGED <<call, order, damping, page, num, probability, state, i,
                   ans, ret>>

\* One round of `while change`: a full pass over the pages.
IteratePass ==
    /\ pc = "loop" /\ change
    /\ \E out \in {RunPass([pr |-> pr, change |-> FALSE, diff |-> diff], 1)} :
          /\ pr' = out.pr
          /\ change' = out.change
          /\ diff' = out.diff
    /\ UNCHANGED <<call, corpus, order, damping, page, num, pc, probability,
                   state, i, ans, links, ret>>

\* The loop ends and pr is returned.
IterateReturn ==
    /\ pc = "loop" /\ ~change
    /\ ret' = pr
    /\ pc' = "done"
    /\ UNCHANGED <<call, corpus, order, damping, page, num, probability,
                   state, i, ans, links, pr, diff, change>>

Next ==
    \/ TransitionCall
    \/ SampleStart
    \/ SampleStartEmpty
    \/ SampleStep
    \/ SampleReturn
    \/ IterateStart
    \/ IteratePass
    \/ IterateReturn

Spec == Init /\ [][Next]_vars

\* iterate_pagerank alone.  The program is sequential: a step that can be
\* taken is taken.
IterateInit == Init /\ call = "iterate"

IterateNext == IterateStart \/ IteratePass \/ IterateReturn

LiveSpec == IterateInit /\ [][IterateNext]_vars /\ WF_vars(IterateNext)

\* ----------------------------------------------------------------- claims
IsEstimator == call \in {"sample", "iterate"}

\* C1: neither estimator mutates the caller's graph: no step of
\* sample_pagerank or iterate_pagerank changes the set of links of any page,
\* so the graph at return is the graph of the call.
C1_GraphNeverMutated == [][IsEstimator => corpus' = corpus]_vars

\* C2: an estimator called on the empty graph ends in an error and never
\* returns a mapping.
C2_EmptyGraphRejected == (IsEstimator /\ Pages = {}) => pc # "done"

MatchesReference(c, p, d, dist) ==
    LET n == Cardinality(DOMAIN c)
        k == Cardinality(c[p])
    IN /\ DOMAIN dist = DOMAIN c
       /\ \A q \in DOMAIN c :
             /\ dist[q][2] > 0
             /\ IF k = 0
                THEN dist[q][1] * n = dist[q][2]
                ELSE IF q \in c[p]
                THEN dist[q][1] * (DampDen * k * n)
                        = (d * n + (DampDen - d) * k) * dist[q][2]
                ELSE dist[q][1] * (DampDen * n) = (DampDen - d) * dist[q][2]

\* C4: the mapping transition_model returns has exactly the pages of the
\* graph as keys and the values of the reference formula.
C4_TransitionFormula ==
    /\ (call = "transition" /\ pc = "done") =>
          MatchesReference(corpus, page, damping, ret)
    /\ (call = "sample" /\ pc = "walk") =>
          \A p \in Pages : MatchesReference(corpus, p, damping, probability[p])

C4_Witness ==
    /\ call = "transition" /\ pc = "done"
    /\ Cardinality(corpus[page]) = 2 /\ damping = DAMPING

\* A distribution: no negative value, and the values sum to 1.
IsDistribution(dist) ==
    /\ \A q \in DOMAIN dist : dist[q][1] >= 0 /\ dist[q][2] > 0
    /\ RatSum(dist) = <<1, 1>>

\* C5: for every page of a non-empty graph and every damping in [0,1] the
\* values transition_model returns are non-negative and sum to 1.
C5_TransitionSumsToOne ==
    /\ (call = "transition" /\ pc = "done") => IsDistribution(ret)
    /\ (call = "sample" /\ pc = "walk") =>
          \A p \in Pages : IsDistribution(probability[p])

C5_Witness ==
    /\ call = "transition" /\ pc = "done"
    /\ Cardinality(Pages) = 3 /\ corpus[page] = {} /\ damping = DampDen

\* C6: iterate_pagerank on a non-empty graph with damping < 1 returns.
C6_IterateTerminates ==
    (call = "iterate" /\ Pages # {} /\ damping < DampDen) => <>(pc = "done")

C6_Witness ==
    /\ call = "iterate" /\ pc = "done" /\ damping = DAMPING
    /\ Cardinality(Pages) = 3
    /\ \E p \in Pages : p \in corpus[p]
    /\ \E p \in Pages : p \notin corpus[p]

\* C7: the ranks iterate_pagerank returns for a non-empty graph are
\* non-negative and sum to 1 within 0.001.  Stated for the damping factor
\* the program runs with, DAMPING.
C7_IterateSumsToOne ==
    (call = "iterate" /\ pc = "done" /\ Pages # {} /\ damping = DAMPING) =>
       /\ \A p \in Pages : ret[p] >= 0
       /\ Abs(IntSum(ret) - Scale) <= Threshold

\* C8: a pass is a synchronous update: the rank every page has after the
\* pass is the update rule applied to the ranks held before the pass.
C8_SynchronousPass ==
    [][(pc = "loop" /\ change) => pr' = [p \in Pages |-> NewValue(pr, p)]]_vars

\* C9 as stated: after the preprocessing every page has a non-empty entry
\* in the reverse link index.
C9_EveryPageHasIncoming ==
    (call = "iterate" /\ pc \in {"loop", "done"}) =>
       \A p \in Pages : p \in DOMAIN links /\ links[p] # {}

\* C9 as amended: the reverse link index built after the preprocessing has
\* a non-empty entry for exactly the pages some page of the working graph
\* links to, and it has one for every page when the graph handed over has
\* a page without links.
C9_IncomingWhenDangling ==
    [][(call = "iterate" /\ pc = "call") =>
         /\ \A t \in Pages : t \in DOMAIN links' <=> \E q \in Pages : t \in corpus'[q]
         /\ \A t \in DOMAIN links' : links'[t] # {} /\ links'[t] \subseteq Pages
         /\ (\E p \in Pages : corpus[p] = {}) => DOMAIN links' = Pages]_vars

C9_Witness ==
    /\ call = "iterate" /\ pc = "loop"
    /\ Cardinality(Pages) = 3
    /\ \E p \in Pages : p \in corpus[p]
    /\ \E p \in Pages : Cardinality(links[p]) = 1

\* C10: after a pass the loop runs another pass exactly if some page's rank
\* moved by 0.001 or more in that pass, and otherwise returns the ranks.
C10_PerPageConvergence ==
    [][/\ (pc = "loop" /\ change) =>
             /\ pc' = "loop"
             /\ change' <=> \E p \in Pages : Abs(pr'[p] - pr[p]) >= Threshold
       /\ (pc = "loop" /\ ~change) => (pc' = "done" /\ ret' = pr)
       /\ (call = "iterate" /\ pc' = "done") => (pc = "loop" /\ ~change)]_vars

C10_Witness ==
    /\ call = "iterate" /\ pc = "loop"
    /\ change /\ diff < Threshold
    /\ \E p \in Pages : p \notin DOMAIN links
=============================================================================
